---- MODULE Spec2Model ----
(***************************************************************************)
(* Model of the Albert "GitHub projects" plugin (src/__init__.py): the     *)
(* Repo record, GitHubHelper (cache load, account parsing, paginated       *)
(* fetch, cache refresh) and Plugin (settings property, query handler).    *)
(*                                                                         *)
(* Python strings are sequences of one-character strings, so that          *)
(* lower(), strip(), split(), the "in" operator and the JSON text of the   *)
(* cache file are computed character by character.                         *)
(***************************************************************************)
EXTENDS Naturals, Sequences, FiniteSets

VARIABLES
    config,      \* the host's persisted "accounts" setting (readConfig/writeConfig)
    _accounts,   \* Plugin._accounts
    ghAccounts,  \* GitHubHelper.accounts, the string handed over at construction
    cache,       \* GitHubHelper.cache: [set |-> attribute exists, repos |-> list of Repo]
    file,        \* gh_cache.json: [exists |-> BOOLEAN, text |-> characters]
    up,          \* the Plugin instance was constructed without an exception
    last         \* what the last operation did (arguments, exception, requests, items)

vars == <<config, _accounts, ghAccounts, cache, file, up, last>>

(***************************************************************************)
(* Bounds of the model                                                     *)
(***************************************************************************)
MaxRepos == 3       \* repositories the remote API holds per known user
MaxPageSize == 2    \* items the remote API puts on one page

(***************************************************************************)
(* Strings                                                                 *)
(***************************************************************************)
UpperChars == <<"A", "B", "C", "D", "E", "F", "G", "H", "I", "J", "K", "L", "M",
                "N", "O", "P", "Q", "R", "S", "T", "U", "V", "W", "X", "Y", "Z">>
LowerChars == <<"a", "b", "c", "d", "e", "f", "g", "h", "i", "j", "k", "l", "m",
                "n", "o", "p", "q", "r", "s", "t", "u", "v", "w", "x", "y", "z">>

\* str.lower() on one character
LowerChar(c) ==
    IF \E i \in 1..Len(UpperChars) : UpperChars[i] = c
    THEN LowerChars[CHOOSE i \in 1..Len(UpperChars) : UpperChars[i] = c]
    ELSE c

\* str.lower()
Lower(s) == [i \in 1..Len(s) |-> LowerChar(s[i])]

\* the characters str.strip() removes
IsSpace(c) == c \in {" ", "\t", "\n", "\r"}

RECURSIVE LStrip(_)
LStrip(s) == IF s # <<>> /\ IsSpace(Head(s)) THEN LStrip(Tail(s)) ELSE s

RECURSIVE RStrip(_)
RStrip(s) ==
    IF s # <<>> /\ IsSpace(s[Len(s)]) THEN RStrip(SubSeq(s, 1, Len(s) - 1)) ELSE s

\* str.strip()
Strip(s) == RStrip(LStrip(s))

\* str.split(sep) for a one-character separator: always at least one piece
RECURSIVE Split(_, _)
Split(s, sep) ==
    IF \E i \in 1..Len(s) : s[i] = sep
    THEN LET i == CHOOSE k \in 1..Len(s) :
                     s[k] = sep /\ \A j \in 1..(k - 1) : s[j] # sep
         IN  <<SubSeq(s, 1, i - 1)>> \o Split(SubSeq(s, i + 1, Len(s)), sep)
    ELSE <<s>>

\* Python's "sub in s" on strings
IsSubstring(sub, s) ==
    \E i \in 0..Len(s) :
        i + Len(sub) <= Len(s) /\ SubSeq(s, i + 1, i + Len(sub)) = sub

\* str.startswith
StartsWith(s, prefix) ==
    Len(prefix) <= Len(s) /\ SubSeq(s, 1, Len(prefix)) = prefix

RECURSIVE Concat(_)
Concat(ss) == IF ss = <<>> THEN <<>> ELSE Head(ss) \o Concat(Tail(ss))

(***************************************************************************)
(* Repo (the dataclass) and its dictionary form                            *)
(***************************************************************************)
KeyAccount == <<"a", "c", "c", "o", "u", "n", "t">>
KeyName == <<"n", "a", "m", "e">>
KeyUrl == <<"u", "r", "l">>
KeyDescription == <<"d", "e", "s", "c", "r", "i", "p", "t", "i", "o", "n">>

\* the dataclass fields, in declaration order
RepoFields == <<KeyAccount, KeyName, KeyUrl, KeyDescription>>

\* Repo(account=.., name=.., url=.., description=..)
Repo(account, name, url, description) ==
    [account |-> account, name |-> name, url |-> url, description |-> description]

\* A Python dict is a sequence of <<key, value>> pairs in insertion order.
DictHas(d, k) == \E i \in 1..Len(d) : d[i][1] = k
DictGet(d, k) == d[CHOOSE i \in 1..Len(d) : d[i][1] = k][2]
DictSet(d, k, v) ==
    IF DictHas(d, k)
    THEN [i \in 1..Len(d) |-> IF d[i][1] = k THEN <<k, v>> ELSE d[i]]
    ELSE Append(d, <<k, v>>)

\* Repo.to_dict: the instance __dict__, fields in the order __init__ assigns them
to_dict(repo) ==
    << <<KeyAccount, repo.account>>, <<KeyName, repo.name>>,
       <<KeyUrl, repo.url>>, <<KeyDescription, repo.description>> >>

\* from_dict with the values of "account" and "name" handed to the wrong fields
from_dict_swapped(data) ==
    IF /\ \A i \in 1..Len(RepoFields) : DictHas(data, RepoFields[i])
       /\ \A i \in 1..Len(data) : \E j \in 1..Len(RepoFields) : RepoFields[j] = data[i][1]
    THEN [ok |-> TRUE,
          repo |-> Repo(DictGet(data, KeyName), DictGet(data, KeyAccount),
                        DictGet(data, KeyUrl), DictGet(data, KeyDescription))]
    ELSE [ok |-> FALSE, repo |-> Repo(<<>>, <<>>, <<>>, <<>>)]

\* Repo.from_dict: cls(**data) raises TypeError unless the keys are exactly the fields
from_dict(data) ==
    IF /\ \A i \in 1..Len(RepoFields) : DictHas(data, RepoFields[i])
       /\ \A i \in 1..Len(data) : \E j \in 1..Len(RepoFields) : RepoFields[j] = data[i][1]
    THEN [ok |-> TRUE,
          repo |-> Repo(DictGet(data, KeyAccount), DictGet(data, KeyName),
                        DictGet(data, KeyUrl), DictGet(data, KeyDescription))]
    ELSE [ok |-> FALSE, repo |-> Repo(<<>>, <<>>, <<>>, <<>>)]

\* matches_query without the lower(): query in self.name
matches_query_case_sensitive(repo, query) == IsSubstring(query, repo.name)

\* Repo.matches_query: query in self.name.lower()
matches_query(repo, query) == IsSubstring(query, Lower(repo.name))

(***************************************************************************)
(* json.dumps(obj, indent=4) for a list of dicts with string values        *)
(***************************************************************************)
IndentWidth == 4

Spaces(n) == [i \in 1..n |-> " "]

\* the characters of the model's alphabet that json.dumps escapes
JsonEscaped == {"\"", "\\", "\n", "\r", "\t"}

JsonEscapeChar(c) ==
    IF c = "\"" THEN <<"\\", "\"">>
    ELSE IF c = "\\" THEN <<"\\", "\\">>
    ELSE IF c = "\n" THEN <<"\\", "n">>
    ELSE IF c = "\r" THEN <<"\\", "r">>
    ELSE IF c = "\t" THEN <<"\\", "t">>
    ELSE <<c>>

\* a string literal: the characters between quotes, escaped where needed
JsonString(s) ==
    <<"\"">>
    \o (IF \A i \in 1..Len(s) : s[i] \notin JsonEscaped
        THEN s
        ELSE Concat([i \in 1..Len(s) |-> JsonEscapeChar(s[i])]))
    \o <<"\"">>

\* pieces joined by ",\n"
RECURSIVE JoinLines(_)
JoinLines(parts) ==
    IF parts = <<>> THEN <<>>
    ELSE IF Len(parts) = 1 THEN parts[1]
    ELSE parts[1] \o <<",", "\n">> \o JoinLines(Tail(parts))

\* a dict written at nesting depth `level` (its members one level deeper)
JsonObject(d, level) ==
    IF d = <<>> THEN <<"{", "}">>
    ELSE <<"{", "\n">>
         \o JoinLines([i \in 1..Len(d) |->
                Spaces(IndentWidth * (level + 1))
                \o JsonString(d[i][1]) \o <<":", " ">> \o JsonString(d[i][2])])
         \o <<"\n">> \o Spaces(IndentWidth * level) \o <<"}">>

\* json.dumps(list_of_dicts, indent=4)
JsonDumps(dicts) ==
    IF dicts = <<>> THEN <<"[", "]">>
    ELSE <<"[", "\n">>
         \o JoinLines([i \in 1..Len(dicts) |->
                Spaces(IndentWidth) \o JsonObject(dicts[i], 1)])
         \o <<"\n", "]">>

(***************************************************************************)
(* json.load for the documents the cache file can hold: an array of        *)
(* objects whose values are strings.  Every parser returns                 *)
(* [ok, val, pos]: pos is the index of the first character not consumed.   *)
(***************************************************************************)
ParseFail == [ok |-> FALSE, val |-> <<>>, pos |-> 0]

RECURSIVE SkipWs(_, _)
SkipWs(t, i) == IF i <= Len(t) /\ IsSpace(t[i]) THEN SkipWs(t, i + 1) ELSE i

\* the character an escape sequence \c stands for (<<>> when json rejects it)
JsonUnescape(c) ==
    IF c \in {"\"", "\\", "/"} THEN <<c>>
    ELSE IF c = "n" THEN <<"\n">>
    ELSE IF c = "r" THEN <<"\r">>
    ELSE IF c = "t" THEN <<"\t">>
    ELSE <<>>

\* the characters of a string literal from position i (after the opening quote)
RECURSIVE ScanString(_, _, _)
ScanString(t, i, acc) ==
    IF i > Len(t) THEN ParseFail
    ELSE IF t[i] = "\"" THEN [ok |-> TRUE, val |-> acc, pos |-> i + 1]
    ELSE IF t[i] = "\\"
         THEN IF i + 1 > Len(t) \/ JsonUnescape(t[i + 1]) = <<>>
              THEN ParseFail
              ELSE ScanString(t, i + 2, acc \o JsonUnescape(t[i + 1]))
    ELSE IF t[i] \in {"\n", "\r", "\t"} THEN ParseFail  \* raw control character
    ELSE ScanString(t, i + 1, Append(acc, t[i]))

ParseString(t, i) ==
    IF i <= Len(t) /\ t[i] = "\"" THEN ScanString(t, i + 1, <<>>) ELSE ParseFail

RECURSIVE ParseMembers(_, _, _)

\* after a member: "," and the next member, or "}"
MemberEnd(t, e, d) ==
    IF e > Len(t) THEN ParseFail
    ELSE IF t[e] = "," THEN ParseMembers(t, e + 1, d)
    ELSE IF t[e] = "}" THEN [ok |-> TRUE, val |-> d, pos |-> e + 1]
    ELSE ParseFail

\* the value v of the member `key` was read: it is set in the dict
AfterValue(t, acc, key, v) ==
    IF ~v.ok THEN ParseFail
    ELSE MemberEnd(t, SkipWs(t, v.pos), DictSet(acc, key, v.val))

\* c is the position where the ":" after the key must be
AfterKey(t, acc, key, c) ==
    IF c > Len(t) \/ t[c] # ":" THEN ParseFail
    ELSE AfterValue(t, acc, key, ParseString(t, SkipWs(t, c + 1)))

\* the key k of a member was read
MemberOfKey(t, acc, k) ==
    IF ~k.ok THEN ParseFail ELSE AfterKey(t, acc, k.val, SkipWs(t, k.pos))

\* members of an object from position i (after "{" or ","), added to acc
ParseMembers(t, i, acc) == MemberOfKey(t, acc, ParseString(t, SkipWs(t, i)))

\* j is the position of the first character after "{" that is not whitespace
ObjectFrom(t, j) ==
    IF j <= Len(t) /\ t[j] = "}"
    THEN [ok |-> TRUE, val |-> <<>>, pos |-> j + 1]
    ELSE ParseMembers(t, j, <<>>)

ParseObject(t, i) ==
    IF i > Len(t) \/ t[i] # "{" THEN ParseFail ELSE ObjectFrom(t, SkipWs(t, i + 1))

RECURSIVE ParseElements(_, _, _)

\* after an element: "," and the next element, or "]"
ElementEnd(t, e, acc) ==
    IF e > Len(t) THEN ParseFail
    ELSE IF t[e] = "," THEN ParseElements(t, e + 1, acc)
    ELSE IF t[e] = "]" THEN [ok |-> TRUE, val |-> acc, pos |-> e + 1]
    ELSE ParseFail

\* the element o was read: it is appended to the list
AfterElement(t, acc, o) ==
    IF ~o.ok THEN ParseFail
    ELSE ElementEnd(t, SkipWs(t, o.pos), Append(acc, o.val))

\* elements of an array from position i (after "[" or ","), appended to acc
ParseElements(t, i, acc) == AfterElement(t, acc, ParseObject(t, SkipWs(t, i)))

\* j is the position of the first character after "[" that is not whitespace
ArrayFrom(t, j) ==
    IF j <= Len(t) /\ t[j] = "]"
    THEN [ok |-> TRUE, val |-> <<>>, pos |-> j + 1]
    ELSE ParseElements(t, j, <<>>)

ParseArray(t, i) ==
    IF i > Len(t) \/ t[i] # "[" THEN ParseFail ELSE ArrayFrom(t, SkipWs(t, i + 1))

\* the document a was read: nothing but whitespace may follow it
WholeDocument(t, a) ==
    IF a.ok /\ SkipWs(t, a.pos) > Len(t) THEN a ELSE ParseFail

\* json.load: one document, nothing but whitespace around it
JsonLoad(t) == WholeDocument(t, ParseArray(t, SkipWs(t, 1)))

\* [Repo.from_dict(repo) for repo in ...], given the result of every from_dict
ReposOfDicts(made) ==
    IF \E i \in 1..Len(made) : ~made[i].ok
    THEN [ok |-> FALSE, error |-> "TypeError", repos |-> <<>>]
    ELSE [ok |-> TRUE, error |-> "none",
          repos |-> [i \in 1..Len(made) |-> made[i].repo]]

\* the cache, given what json.load returned
CacheOfData(data) ==
    IF ~data.ok THEN [ok |-> FALSE, error |-> "JSONDecodeError", repos |-> <<>>]
    ELSE ReposOfDicts([i \in 1..Len(data.val) |-> from_dict(data.val[i])])

\* GitHubHelper.__init__, the two lines that read the file:
\* json.load, then Repo.from_dict for every element
LoadCache(text) == CacheOfData(JsonLoad(text))

(***************************************************************************)
(* The remote search API, as the fetch sees it.  A URL is <<user, page>>   *)
(* (the q=user:<user> search, page 1 being the URL the code builds) and    *)
(* <<>> stands for "no URL" (None).  The API holds MaxRepos repositories   *)
(* of user "a" and one of user "b"; which of them are archived and how     *)
(* many items go on a page is chosen anew for every refresh.               *)
(***************************************************************************)
NoUrl == <<>>

Users == {<<"a">>, <<"b">>}

\* owner.login of a user's repositories (the API matches users case-insensitively)
LoginOf(user) == IF user = <<"a">> THEN <<"A">> ELSE user

NamePool == << <<"C", "a", "t">>, <<"c", "a", "b">>, <<"d", "o", "g">> >>

\* description as the API gives it: null, or a string
JsonNull == [null |-> TRUE, str |-> <<>>]
JsonStr(s) == [null |-> FALSE, str |-> s]
DescPool == << JsonNull, JsonStr(<<"\"", "\\", "n">>), JsonStr(<<>>) >>

PoolIndex(user, k, n) == (((IF user = <<"a">> THEN 0 ELSE 1) + k - 1) % n) + 1

\* the name of the k-th repository of a user: a name of the pool, with one
\* more "s" every time the pool is used up, so that no two names are equal
NameOf(user, k) ==
    NamePool[PoolIndex(user, k, Len(NamePool))]
    \o [i \in 1..((k - 1) \div Len(NamePool)) |-> "s"]

\* the k-th repository of a user, one element of the response's "items"
Item(user, k, archived) ==
    LET name == NameOf(user, k) IN
    [name |-> name,
     owner |-> [login |-> LoginOf(user)],
     html_url |-> <<"h", ":">> \o LoginOf(user) \o <<"/">> \o name,
     description |-> DescPool[PoolIndex(user, k, Len(DescPool))],
     archived |-> archived]

\* how many repositories the API holds for a user (none for an unknown one)
RepoCount(user) ==
    IF user = <<"a">> THEN MaxRepos ELSE IF user = <<"b">> THEN 1 ELSE 0

\* A state of the remote API is a world: the set of the repositories <<user, k>>
\* that are archived.
RemoteItems(user, world) ==
    [k \in 1..RepoCount(user) |-> Item(user, k, <<user, k>> \in world)]

Min(a, b) == IF a <= b THEN a ELSE b

\* one page of a user's repositories, with the URL of the page after it
PageOf(all, user, page, pageSize) ==
    [items |-> SubSeq(all, (page - 1) * pageSize + 1, Min(page * pageSize, Len(all))),
     next |-> IF page * pageSize < Len(all) THEN <<user, page + 1>> ELSE NoUrl]

\* requests.get(url): the page's items (req.json()["items"]) and the URL of
\* the "next" link (req.links.get("next", {}).get("url")), NoUrl on the last page
Respond(url, world, pageSize) ==
    PageOf(RemoteItems(url[1], world), url[1], url[2], pageSize)

(***************************************************************************)
(* GitHubHelper                                                            *)
(***************************************************************************)
\* [account.strip() for account in pieces]
StripAll(pieces) == [i \in 1..Len(pieces) |-> Strip(pieces[i])]

\* GitHubHelper.get_accounts: split on commas, strip every piece
get_accounts(accounts) == StripAll(Split(accounts, ","))

\* repo["description"] or ""
OrEmpty(d) == IF d.null \/ d.str = <<>> THEN <<>> ELSE d.str

\* the for loop over data["items"] without the test of "archived"
RECURSIVE ReposOfItems_keep_archived(_)
ReposOfItems_keep_archived(items) ==
    IF items = <<>> THEN <<>>
    ELSE LET repo == Head(items) IN
         << Repo(repo.owner.login, repo.name, repo.html_url,
                 OrEmpty(repo.description)) >>
         \o ReposOfItems_keep_archived(Tail(items))

\* the for loop over data["items"]: archived items are skipped
RECURSIVE ReposOfItems(_)
ReposOfItems(items) ==
    IF items = <<>> THEN <<>>
    ELSE LET repo == Head(items) IN
         (IF repo.archived = TRUE
          THEN <<>>
          ELSE << Repo(repo.owner.login, repo.name, repo.html_url,
                       OrEmpty(repo.description)) >>)
         \o ReposOfItems(Tail(items))

\* what a fetch has so far: the records, the URLs requested and the
\* responses received ([items, next], one for every request that succeeded)
NoneFetched == [ok |-> TRUE, repos |-> <<>>, requests |-> <<>>, responses |-> <<>>]

\* one pass of the loop body after requests.get returned resp
Received(r, url, resp) ==
    [r EXCEPT !.repos = r.repos \o ReposOfItems(resp.items),
              !.requests = Append(r.requests, url),
              !.responses = Append(r.responses, resp)]

\* the loop of get_repos_for_account leaving after the first response,
\* whatever its "next" link
FetchLoop_first_page_only(url, r, made, world, pageSize, failAt) ==
    IF made + 1 = failAt
    THEN [r EXCEPT !.ok = FALSE, !.requests = Append(r.requests, url)]
    ELSE Received(r, url, Respond(url, world, pageSize))

RECURSIVE FetchLoop(_, _, _, _, _, _)

\* the loop goes on with the "next" link of the response just handled
NextPage(r, made, world, pageSize, failAt) ==
    FetchLoop(r.responses[Len(r.responses)].next, r, made, world, pageSize, failAt)

\* The while loop of get_repos_for_account, from the request for `url` on.
\* `made` counts the requests of the whole refresh so far; the failAt-th one
\* raises (failAt = 0: none does).
FetchLoop(url, r, made, world, pageSize, failAt) ==
    IF url = NoUrl THEN r
    ELSE IF made + 1 = failAt
         THEN [r EXCEPT !.ok = FALSE, !.requests = Append(r.requests, url)]
    ELSE NextPage(Received(r, url, Respond(url, world, pageSize)),
                  made + 1, world, pageSize, failAt)

\* GitHubHelper.get_repos_for_account
get_repos_for_account(account, made, world, pageSize, failAt) ==
    FetchLoop(<<Lower(account), 1>>, NoneFetched, made, world, pageSize, failAt)

RECURSIVE FetchAccounts(_, _, _, _, _)

\* repos += one.repos, and the loop goes on with the accounts left unless
\* the fetch of this account raised
AddFetched(rest, r, one, world, pageSize, failAt) ==
    LET sum == [ok |-> one.ok,
                repos |-> r.repos \o one.repos,
                requests |-> r.requests \o one.requests,
                responses |-> r.responses \o one.responses]
    IN  IF one.ok THEN FetchAccounts(rest, sum, world, pageSize, failAt) ELSE sum

\* the for loop of cache_all_repos: repos += get_repos_for_account(account)
FetchAccounts(accounts, r, world, pageSize, failAt) ==
    IF accounts = <<>> THEN r
    ELSE AddFetched(Tail(accounts), r,
                    get_repos_for_account(Head(accounts), Len(r.requests),
                                          world, pageSize, failAt),
                    world, pageSize, failAt)

\* The environment of one refresh: the world, the page size, which request
\* fails (failAt, 0 for none) and how the write goes: fault "none", "open"
\* (open raises), "write" (f.write raises) or "close" (closing the file,
\* which flushes the buffered text, raises).
Env(world, pageSize, failAt, fault) ==
    [world |-> world, pageSize |-> pageSize, failAt |-> failAt, fault |-> fault]

\* the repositories whose archived flag a fetch of these accounts can see
VisibleRepos(accounts) ==
    {<<Lower(accounts[i]), k>> : i \in 1..Len(accounts), k \in 1..MaxRepos}
    \cap {<<u, k>> \in Users \X (1..MaxRepos) : k <= RepoCount(u)}

\* the number of requests a refresh of these accounts makes at page size 1
RequestCount(accounts) ==
    Len(FetchAccounts(accounts, NoneFetched, {}, 1, 0).requests)

\* The environments a refresh of these accounts is tried in: every world and
\* page size when nothing fails; and, in the world where nothing is archived
\* and at page size 1 (where a refresh makes the most requests), every
\* request failing and every write fault.  (A failed request stores no
\* record and a failed write leaves no trace of the pages, so that the
\* archived flags have no effect there; a failed close stores the records
\* of that world.)
Envs(accounts) ==
    {Env(w, ps, 0, "none") :
        w \in SUBSET VisibleRepos(accounts), ps \in 1..MaxPageSize}
    \cup {Env({}, 1, 0, f) : f \in {"open", "write", "close"}}
    \cup {Env({}, 1, k, "none") : k \in 1..RequestCount(accounts)}

\* open(path, "w") truncates the file; text that is written but not flushed
\* when the exception is raised does not reach it
TruncatedFile == [exists |-> TRUE, text |-> <<>>]

NoCache == [set |-> FALSE, repos |-> <<>>]

\* The outcome of cache_all_repos: the exception raised ("none": it returned),
\* self.cache and the file afterwards, and what the call observed: the parsed
\* accounts, the URLs requested up to a failed request and, when the call
\* returned, all URLs requested, the responses and the record list it built.
Outcome(raised, newCache, newFile, accounts, requests) ==
    [raised |-> raised, cache |-> newCache, file |-> newFile, accounts |-> accounts,
     requests |-> requests, responses |-> <<>>, fetched |-> <<>>]

\* the with block of cache_all_repos: open, f.write(json.dumps(..)), self.cache = repos
SaveRepos(got, accounts, fault) ==
    LET text == JsonDumps([i \in 1..Len(got.repos) |-> to_dict(got.repos[i])])
        stored == [set |-> TRUE, repos |-> got.repos]
    IN  IF fault = "open"
        THEN Outcome("OSError", cache, file, accounts, <<>>)
        ELSE IF fault = "write"
        THEN \* f.write raises: the file is truncated, self.cache is not assigned
             Outcome("OSError", cache, TruncatedFile, accounts, <<>>)
        ELSE IF fault = "close"
        THEN \* the with block ends in an exception, after the assignment to self.cache
             Outcome("OSError", stored, TruncatedFile, accounts, <<>>)
        ELSE [Outcome("none", stored, [exists |-> TRUE, text |-> text],
                      accounts, got.requests)
                 EXCEPT !.responses = got.responses, !.fetched = got.repos]

\* the with block run even though a request failed
StoreFetched_saving_partial(accounts, got, fault) ==
    IF ~got.ok
    THEN [SaveRepos(got, accounts, "none")
             EXCEPT !.raised = "RequestException",
                    !.responses = <<>>, !.fetched = <<>>]
    ELSE SaveRepos(got, accounts, fault)

\* cache_all_repos after the fetch loop: an exception raised by a request
\* propagates, otherwise the with block runs
StoreFetched(accounts, got, fault) ==
    IF ~got.ok
    THEN Outcome("RequestException", cache, file, accounts, got.requests)
    ELSE SaveRepos(got, accounts, fault)

\* cache_all_repos from the fetch loop on
FetchAndStore(accounts, env) ==
    StoreFetched(accounts,
                 FetchAccounts(accounts, NoneFetched, env.world, env.pageSize, env.failAt),
                 env.fault)

\* GitHubHelper.cache_all_repos(overwrite)
cache_all_repos(overwrite, env) ==
    IF ~overwrite
    THEN \* self.cache_path.exitst(): a Path has no such attribute
         Outcome("AttributeError", cache, file, <<>>, <<>>)
    ELSE FetchAndStore(get_accounts(ghAccounts), env)

(***************************************************************************)
(* Plugin                                                                  *)
(***************************************************************************)
AdminPrefix == <<"a", " ">>
Trigger == <<"g", "h", " ">>

OpenUrl(id, url) == [id |-> id, call |-> "openUrl", arg |-> url]

\* Plugin._make_item
_make_item(repo) ==
    [id |-> repo.account \o <<"-">> \o repo.name,
     text |-> repo.name,
     subtext |-> repo.description,
     inputActionText |-> Trigger \o repo.name,
     actions |-> << OpenUrl("open", repo.url),
                    OpenUrl("prs", repo.url \o <<"/", "p", "u", "l", "l", "s">>),
                    OpenUrl("issues", repo.url \o <<"/", "i", "s", "s", "u", "e", "s">>) >>]

\* the item of the admin command
RefreshItem ==
    [id |-> <<"r", "e", "f", "r", "e", "s", "h">>,
     text |-> <<"R", "e", "f", "r", "e", "s", "h">>,
     subtext |-> <<>>,
     inputActionText |-> <<>>,
     actions |-> << [id |-> "update", call |-> "cache_all_repos", arg |-> <<>>] >>]

\* the list comprehension of handleTriggerQuery
RECURSIVE MatchingItems(_, _)
MatchingItems(repos, queryString) ==
    IF repos = <<>> THEN <<>>
    ELSE (IF matches_query(Head(repos), Lower(queryString))
          THEN << _make_item(Head(repos)) >>
          ELSE <<>>)
         \o MatchingItems(Tail(repos), queryString)

\* Plugin.handleTriggerQuery: the exception it raises and the items it adds
handleTriggerQuery(queryString) ==
    IF StartsWith(queryString, AdminPrefix)
    THEN [raised |-> "none", items |-> <<RefreshItem>>]
    ELSE IF ~cache.set
    THEN [raised |-> "AttributeError", items |-> <<>>]  \* self.gh.cache was never assigned
    ELSE [raised |-> "none", items |-> MatchingItems(cache.repos, queryString)]

(***************************************************************************)
(* The state machine                                                       *)
(***************************************************************************)
\* values the user types into the "accounts" line edit
AccountSettings ==
    { <<>>, <<"b", ",", " ">>, <<" ", "A", " ", ",", "b">> }

\* query strings the user types after the trigger
Queries ==
    { <<>>, <<"C", "A", "T">>, <<"a", " ">> }

NoConfig == [null |-> TRUE, str |-> <<>>]

Did(op, arg) ==
    [op |-> op, arg |-> arg, raised |-> "none", accounts |-> <<>>,
     requests |-> <<>>, responses |-> <<>>, fetched |-> <<>>, items |-> <<>>]

DidRefresh(op, arg, out) ==
    [Did(op, arg) EXCEPT !.raised = out.raised, !.accounts = out.accounts,
                         !.requests = out.requests, !.responses = out.responses,
                         !.fetched = out.fetched]

\* The host loads the plugin (again): Plugin.__init__ and
\* GitHubHelper.__init__, given the persisted setting and the file
Load ==
    \E loaded \in {LoadCache(file.text)} :
        /\ _accounts' = (IF config.null THEN <<>> ELSE config.str)
        /\ ghAccounts' = (IF config.null THEN <<>> ELSE config.str)
        /\ IF ~file.exists
           THEN /\ cache' = NoCache
                /\ up' = TRUE
                /\ last' = Did("load", <<>>)
           ELSE IF loaded.ok
           THEN /\ cache' = [set |-> TRUE, repos |-> loaded.repos]
                /\ up' = TRUE
                /\ last' = Did("load", <<>>)
           ELSE /\ cache' = NoCache
                /\ up' = FALSE
                /\ last' = [Did("load", <<>>) EXCEPT !.raised = loaded.error]
        /\ UNCHANGED <<config, file>>

\* a fresh installation: no setting stored, no cache file, the plugin constructed
Init ==
    /\ config = NoConfig
    /\ _accounts = <<>>
    /\ ghAccounts = <<>>
    /\ cache = NoCache
    /\ file = [exists |-> FALSE, text |-> <<>>]
    /\ up = TRUE
    /\ last = Did("load", <<>>)

\* the accounts property setter
SetAccounts ==
    /\ up
    /\ \E env \in Envs(get_accounts(ghAccounts)) :
        \E out \in {cache_all_repos(TRUE, env)}, value \in AccountSettings :
        /\ _accounts' = value
        /\ config' = [null |-> FALSE, str |-> value]
        /\ cache' = out.cache
        /\ file' = out.file
        /\ last' = DidRefresh("set_accounts", value, out)
        /\ UNCHANGED <<ghAccounts, up>>

\* the user types a query
Query ==
    /\ up
    /\ \E q \in Queries :
        \E out \in {handleTriggerQuery(q)} :
        /\ last' = [Did("query", q) EXCEPT !.raised = out.raised, !.items = out.items]
        /\ UNCHANGED <<config, _accounts, ghAccounts, cache, file, up>>

\* the user activates the "Update" action of the Refresh item
Refresh ==
    /\ up
    /\ last.op = "query"
    /\ \E i \in 1..Len(last.items) : last.items[i] = RefreshItem
    /\ \E env \in Envs(get_accounts(ghAccounts)) :
        \E out \in {cache_all_repos(TRUE, env)} :
        /\ cache' = out.cache
        /\ file' = out.file
        /\ last' = DidRefresh("refresh", <<>>, out)
        /\ UNCHANGED <<config, _accounts, ghAccounts, up>>

\* cache_all_repos(overwrite=False)
RefreshIfMissing ==
    /\ up
    /\ \E out \in {cache_all_repos(FALSE, Env({}, 1, 0, "none"))} :
        /\ cache' = out.cache
        /\ file' = out.file
        /\ last' = DidRefresh("refresh_if_missing", <<>>, out)
        /\ UNCHANGED <<config, _accounts, ghAccounts, up>>

Next == Load \/ SetAccounts \/ Query \/ Refresh \/ RefreshIfMissing

Spec == Init /\ [][Next]_vars

(***************************************************************************)
(* Properties                                                              *)
(***************************************************************************)
\* the operations that run cache_all_repos() with overwrite=True
RefreshOps == {"refresh", "set_accounts"}

Refreshed == last.op \in RefreshOps /\ last.raised = "none"

\* the record the fetch is to build from one item of a response
RepoOfItem(it) ==
    Repo(it.owner.login, it.name, it.html_url,
         IF it.description.null THEN <<>> ELSE it.description.str)

\* the records of the items of one page that are not archived, in page order
KeptOfPage(items) ==
    LET kept == SelectSeq(items, LAMBDA it : ~it.archived) IN
    [i \in 1..Len(kept) |-> RepoOfItem(kept[i])]

\* every item the API returned during the last refresh
Served == Concat([i \in 1..Len(last.responses) |-> last.responses[i].items])

\* the text json.dumps gives for a list of records
TextOf(repos) == JsonDumps([i \in 1..Len(repos) |-> to_dict(repos[i])])

\* C1: a refresh that fails at a network request leaves the cache file and
\* the in-memory collection exactly as they were before it: nothing of what
\* the earlier requests returned is stored.
C1_FailedRefreshKeepsCache ==
    [][(last'.op \in RefreshOps /\ last'.raised = "RequestException")
           => (cache' = cache /\ file' = file)]_vars

\* C1 witness: a refresh failed after at least one request of it had
\* succeeded, and the cache of an earlier successful refresh, with records
\* in it, is still in memory and in the file.
C1_Witness ==
    /\ last.op \in RefreshOps
    /\ last.raised = "RequestException"
    /\ Len(last.requests) >= 2
    /\ cache.set /\ cache.repos # <<>>
    /\ file.exists /\ file.text = TextOf(cache.repos)

\* C2: cache_all_repos(overwrite=False) with the cache file present returns
\* without raising, requests nothing and leaves file and collection as they are.
C2_SkipWhenCached ==
    [][(last'.op = "refresh_if_missing" /\ file.exists)
           => /\ last'.raised = "none"
              /\ last'.requests = <<>>
              /\ cache' = cache /\ file' = file]_vars

\* C3: with no cache file at plugin load the collection is empty, and a
\* repository query issued before any refresh raises nothing and returns no item.
C3_EmptyCacheWithoutFile ==
    (last.op = "query" /\ ~StartsWith(last.arg, AdminPrefix) /\ ~file.exists)
        => /\ cache.set /\ cache.repos = <<>>
           /\ last.raised = "none" /\ last.items = <<>>

\* C4: after a refresh, no item the API marked archived is among the records
\* the fetch produced, every other item is, and these records are the cache
\* that was written (in memory and in the file).
C4_NoArchivedRepo ==
    Refreshed =>
        /\ \A i \in 1..Len(Served) :
               IF Served[i].archived
               THEN \A j \in 1..Len(last.fetched) :
                        last.fetched[j].url # Served[i].html_url
               ELSE \E j \in 1..Len(last.fetched) :
                        last.fetched[j] = RepoOfItem(Served[i])
        /\ cache = [set |-> TRUE, repos |-> last.fetched]
        /\ file = [exists |-> TRUE, text |-> TextOf(last.fetched)]

\* C4 witness: a refresh over two accounts and several pages was served
\* archived and non-archived items.
C4_Witness ==
    /\ Refreshed
    /\ Len(last.accounts) >= 2 /\ Len(last.requests) >= 3
    /\ \E i \in 1..Len(Served) : Served[i].archived
    /\ \E i \in 1..Len(Served) : ~Served[i].archived

\* positions of the requests that start the chain of an account
ChainStarts ==
    {i \in 1..Len(last.requests) : i = 1 \/ last.responses[i - 1].next = NoUrl}

\* C5: the fetch of an account starts at its search URL and then requests
\* exactly the "next" link of each response, once, until a response carries
\* none; it stops there and goes on to the next account.  The records are
\* the non-archived items of the pages, in page order.
C5_FollowsNextLinks ==
    Refreshed =>
        LET n == Len(last.requests) IN
        /\ Len(last.responses) = n
        /\ n > 0 /\ last.responses[n].next = NoUrl
        /\ Cardinality(ChainStarts) = Len(last.accounts)
        /\ \A i \in 1..n :
               IF i \in ChainStarts
               THEN last.requests[i] =
                        <<Lower(last.accounts[Cardinality({j \in ChainStarts : j <= i})]), 1>>
               ELSE last.requests[i] = last.responses[i - 1].next
        /\ \A i, j \in 1..n :
               (i < j /\ \A k \in (i + 1)..j : k \notin ChainStarts)
                   => last.requests[i] # last.requests[j]
        /\ last.fetched = Concat([i \in 1..n |-> KeptOfPage(last.responses[i].items)])

\* C5 witness: a refresh of two accounts in which one account's chain had
\* more than one page and a page held more than one item.
C5_Witness ==
    /\ Refreshed
    /\ Len(last.accounts) >= 2
    /\ \E i \in 1..Len(last.responses) : last.responses[i].next # NoUrl
    /\ \E i \in 1..Len(last.responses) : Len(last.responses[i].items) >= 2
    /\ last.fetched # <<>>

\* C6: when the plugin is loaded next after a refresh saved its records, the
\* load succeeds and the collection it reads from the file equals the saved
\* records, field by field and in the same order.
C6_SaveLoadRoundTrip ==
    [][(Refreshed /\ last'.op = "load")
           => /\ last'.raised = "none" /\ up'
              /\ cache' = [set |-> TRUE, repos |-> last.fetched]]_vars

\* C6 witness: a load read back several records, one with an empty
\* description and one whose description needs escaping in JSON.
C6_Witness ==
    /\ last.op = "load" /\ last.raised = "none"
    /\ cache.set /\ Len(cache.repos) >= 2
    /\ \E i \in 1..Len(cache.repos) : cache.repos[i].description = <<>>
    /\ \E i \in 1..Len(cache.repos) : \E k \in 1..Len(cache.repos[i].description) :
           cache.repos[i].description[k] \in {"\"", "\\"}

\* the items of the records of the cache whose lowercased name contains the
\* lowercased query string, in cache order
ItemsMatching(queryString) ==
    LET hits == SelectSeq(cache.repos,
                          LAMBDA r : IsSubstring(Lower(queryString), Lower(r.name)))
    IN  [i \in 1..Len(hits) |-> _make_item(hits[i])]

C8_NoEmptyAccount ==
    (last.op \in RefreshOps /\ last.requests # <<>>)
        => /\ last.accounts =
                  SelectSeq([i \in 1..Len(Split(ghAccounts, ",")) |->
                                 Strip(Split(ghAccounts, ",")[i])],
                            LAMBDA a : a # <<>>)
           /\ \A i \in 1..Len(last.requests) : last.requests[i][1] # <<>>

\* C9: the refresh that assigning the accounts setting triggers fetches the
\* accounts just assigned: it parses the new value and requests the
\* repositories of these accounts only.
C9_SetterFetchesNewAccounts ==
    (last.op = "set_accounts" /\ last.raised = "none")
        => /\ last.accounts = get_accounts(last.arg)
           /\ \A i \in 1..Len(last.requests) :
                  \E j \in 1..Len(get_accounts(last.arg)) :
                      last.requests[i][1] = Lower(get_accounts(last.arg)[j])

\* C10: the in-memory collection and the cache file hold the same records.
C10_MemoryEqualsFile ==
    up => IF cache.set
          THEN /\ file.exists
               /\ LoadCache(file.text).ok
               /\ LoadCache(file.text).repos = cache.repos
          ELSE ~file.exists

====
